---- MODULE Spec2Model ----
(***************************************************************************)
(* A model of lw::event::BasicStream (source/lw/event/BasicStream.cpp):    *)
(* the shared _State of one stream, its read-buffer pool, the streaming    *)
(* read protocol driven by the reactor's allocation and data-ready         *)
(* callbacks, the write path, and the shared_ptr life cycle of the state.  *)
(*                                                                         *)
(* Every handler of the source runs to completion on the reactor's single  *)
(* thread, so each one is a single action.  A handler is written as an     *)
(* operator from the machine state (a record of the variables it touches)  *)
(* to the machine state, statement by statement, so that the nested calls  *)
(* of the source (stop_read -> _stop_read -> Promise::resolve -> the       *)
(* attached continuation -> stop_read ...) compose the way they do in C++. *)
(* `trace' is a history variable: the calls the latest handler made, in    *)
(* program order.                                                          *)
(***************************************************************************)
EXTENDS Integers, Sequences, FiniteSets, TLC

VARIABLES
    read_count,             \* _State::read_count, a std::size_t
    read_callback,          \* _State::read_callback (NULL or the id of a callback)
    read_promise,           \* _State::read_promise
    idle_read_buffers,      \* _State::idle_read_buffers, a list of Buffers (by data address)
    active_read_buffers,    \* _State::active_read_buffers
    allocated,              \* heap: how many Buffers have been allocated so far
    use_count,              \* the shared_ptr use count of the _State
    handles,                \* BasicStream objects the application holds
    views,                  \* Buffer views the application still holds
    read_future,            \* the application holds a Future of read_promise
    writes,                 \* the WriteRequests made so far
    uv_reading,             \* reactor: reading is started on the handle
    uv_buf,                 \* reactor: the buffer the allocation callback handed out
    uv_close_calls,         \* reactor: number of uv_close calls on the handle
    terminated,             \* the process was terminated by an escaped exception
    chunks,                 \* history: sizes reported since the current batch began
    ended,                  \* history: how the latest finished batch ended, and
                            \*          whether it had reported any bytes
    stopped,                \* history: stop_read() was called and no read started since
    m_events,               \* Emitter::m_events: for each event, Event::m_listeners
    tup,                    \* a std::tuple handed to the lw::trait helpers
    trace                   \* history: the calls of the latest handler

vars == <<read_count, read_callback, read_promise, idle_read_buffers,
          active_read_buffers, allocated, use_count, handles, views,
          read_future, writes, uv_reading, uv_buf, uv_close_calls,
          terminated, chunks, ended, stopped, m_events, tup, trace>>

\* What belongs to the stream.
stream_vars == <<read_count, read_callback, read_promise, idle_read_buffers,
                 active_read_buffers, allocated, use_count, handles, views,
                 read_future, writes, uv_reading, uv_buf, uv_close_calls,
                 terminated, chunks, ended, stopped>>

(***************************************************************************)
(* Bounds of the model.                                                    *)
(***************************************************************************)
PoolBuffers == 4     \* Buffers of the pool on its own
MaxBuffers == 2      \* Buffers of a stream's pool
MaxChunks == 2       \* data-ready reports per batch
MaxViews == 1        \* views the application holds at a time
MaxWrites == 2       \* write calls
MaxCopies == 1       \* copies of the BasicStream object
LifeBuffers == 1     \* the same, where the life cycle of the state is followed
LifeChunks == 1
LifeWrites == 1

(***************************************************************************)
(* Values of the program and of its environment.                           *)
(***************************************************************************)
NULL == 0
UV_EOF == -4095
ErrStatus == {-104}                 \* a negative reactor status (UV_ECONNRESET)
UvStatus == {0} \cup ErrStatus      \* what a reactor call can return
DataSizes == {1, 2}                 \* chunk sizes the reactor reports
ReadSizes == DataSizes \cup ErrStatus \cup {UV_EOF}
BufSizes == {1, 2}                  \* sizes of the Buffers handed to write
CallbackIds == {1, 2}               \* per-chunk callbacks the application passes
ContBehaviours == {"none", "stop_read", "read"}

(***************************************************************************)
(* lw::trait.  lw/trait.hpp is not part of the sources at hand: the two    *)
(* helpers follow their tests (tests/trait/TupleTests.cpp) and their use   *)
(* in Emitter.hpp.  A tuple is a sequence; element I of the C++ tuple is   *)
(* element I + 1 of the sequence.                                          *)
(***************************************************************************)
RECURSIVE for_each_impl(_, _)

\* A traversal that stops one element short.
for_each_impl_short(I, n) ==
    IF I + 1 >= n THEN <<>> ELSE <<I>> \o for_each_impl(I + 1, n)

\* The indices I for which the functor is called with std::get<I>(tuple), in
\* the order of the calls.
for_each_impl(I, n) ==
    IF I >= n THEN <<>> ELSE <<I>> \o for_each_impl(I + 1, n)

\* trait::for_each( tuple, func ), mutable or const
for_each(tuple) == for_each_impl(0, Len(tuple))

RECURSIVE remove_type(_, _)

\* A remove_type that removes the first occurrence only.
remove_type_first(T, Ts) ==
    IF Ts = <<>> THEN <<>>
    ELSE IF Head(Ts) = T THEN Tail(Ts)
    ELSE <<Head(Ts)>> \o remove_type(T, Tail(Ts))

\* trait::remove_type< T, std::tuple< Ts... > >::type
remove_type(T, Ts) ==
    IF Ts = <<>> THEN <<>>
    ELSE IF Head(Ts) = T THEN remove_type(T, Tail(Ts))
    ELSE <<Head(Ts)>> \o remove_type(T, Tail(Ts))

\* LW_DEFINE_EMITTER( name, (data, ...), (end) ): the event ids of the
\* Emitter's Events..., in the order of its tuple; the macro's list ends with
\* std::nullptr_t, which remove_type takes out.
Events == remove_type("nullptr_t", <<"data", "end", "nullptr_t">>)

Range(q) == {q[i] : i \in 1..Len(q)}

Min(S) == CHOOSE x \in S : \A y \in S : x <= y

RECURSIVE SumSeq(_)
SumSeq(q) == IF q = <<>> THEN 0 ELSE Head(q) + SumSeq(Tail(q))

Emit(s, name, a, b) == [s EXCEPT !.trace = Append(@, <<name, a, b>>)]

(***************************************************************************)
(* std::size_t.  read_count, the size of a Buffer view and the value of    *)
(* the read promise are std::size_t, 64 bits wide and unsigned, while the  *)
(* data-ready callback receives its size as a long: a negative size wraps. *)
(* A std::size_t is held as its four 16-bit limbs, the most significant    *)
(* first: 3 is <<0, 0, 0, 3>>, and 18446744073709551512 (2^64 - 104) is    *)
(* <<65535, 65535, 65535, 65432>>.                                         *)
(***************************************************************************)
Limb == 2^16

\* The conversion of a long to std::size_t: n modulo 2^64.
size_t(n) ==
    LET q1 == n \div Limb
        q2 == q1 \div Limb
        q3 == q2 \div Limb
    IN  <<q3 % Limb, q2 % Limb, q1 % Limb, n % Limb>>

\* a + b in std::size_t: the sum modulo 2^64.
size_t_add(a, b) ==
    LET c0 == a[4] + b[4]
        c1 == a[3] + b[3] + (c0 \div Limb)
        c2 == a[2] + b[2] + (c1 \div Limb)
        c3 == a[1] + b[1] + (c2 \div Limb)
    IN  <<c3 % Limb, c2 % Limb, c1 % Limb, c0 % Limb>>

(***************************************************************************)
(* The machine state a handler works on, and its write-back.               *)
(***************************************************************************)
Cur ==
    [read_count |-> read_count, read_callback |-> read_callback,
     read_promise |-> read_promise,
     idle_read_buffers |-> idle_read_buffers,
     active_read_buffers |-> active_read_buffers,
     allocated |-> allocated, use_count |-> use_count, handles |-> handles,
     views |-> views, read_future |-> read_future, writes |-> writes,
     uv_reading |-> uv_reading, uv_buf |-> uv_buf,
     uv_close_calls |-> uv_close_calls, terminated |-> terminated,
     trace |-> <<>>]

Commit(s) ==
    /\ read_count' = s.read_count
    /\ read_callback' = s.read_callback
    /\ read_promise' = s.read_promise
    /\ idle_read_buffers' = s.idle_read_buffers
    /\ active_read_buffers' = s.active_read_buffers
    /\ allocated' = s.allocated
    /\ use_count' = s.use_count
    /\ handles' = s.handles
    /\ views' = s.views
    /\ read_future' = s.read_future
    /\ writes' = s.writes
    /\ uv_reading' = s.uv_reading
    /\ uv_buf' = s.uv_buf
    /\ uv_close_calls' = s.uv_close_calls
    /\ terminated' = s.terminated
    /\ trace' = s.trace
    /\ UNCHANGED <<m_events, tup>>

(***************************************************************************)
(* The read-buffer pool.                                                   *)
(***************************************************************************)
\* memory::Buffer( 1024 ): a new Buffer; its data address is fresh.
NewBuffer(s) == s.allocated + 1

\* The capacity of a read Buffer.
ReadBufferSize == 1024

\* A _next_read_buffer that allocates whether or not a Buffer is idle.
_next_read_buffer_allocating(s) ==
    LET s1 == Emit([s EXCEPT !.idle_read_buffers = <<NewBuffer(s)>> \o @,
                             !.allocated = @ + 1],
                   "Buffer", NewBuffer(s), ReadBufferSize)
    IN  [s1 EXCEPT !.active_read_buffers = Append(@, Head(s1.idle_read_buffers)),
                   !.idle_read_buffers = Tail(@)]

\* BasicStream::_next_read_buffer: the state after the call.
_next_read_buffer(s) ==
    LET s1 == IF Len(s.idle_read_buffers) = 0
              THEN Emit([s EXCEPT !.idle_read_buffers = Append(@, NewBuffer(s)),
                                  !.allocated = @ + 1],
                        "Buffer", NewBuffer(s), ReadBufferSize)
              ELSE s
    IN  [s1 EXCEPT !.active_read_buffers = Append(@, Head(s1.idle_read_buffers)),
                   !.idle_read_buffers = Tail(@)]

\* The Buffer _next_read_buffer returns: active_read_buffers.back().
Back(q) == q[Len(q)]

\* The position of the first active Buffer whose data() is base, 0 when none.
FindActive(s, base) ==
    LET hits == {i \in 1..Len(s.active_read_buffers) : s.active_read_buffers[i] = base}
    IN  IF hits = {} THEN 0 ELSE CHOOSE i \in hits : \A j \in hits : i <= j

\* std::list::splice of one element out of a list.
Erase(q, i) == SubSeq(q, 1, i - 1) \o SubSeq(q, i + 1, Len(q))

\* A release that copies the matched Buffer to idle and leaves it in active.
_release_read_buffer_copying(s, base) ==
    LET i == FindActive(s, base)
    IN  IF i = 0
        THEN s
        ELSE [s EXCEPT !.idle_read_buffers = Append(@, s.active_read_buffers[i])]

\* BasicStream::_release_read_buffer
_release_read_buffer(s, base) ==
    LET i == FindActive(s, base)
    IN  IF i = 0
        THEN s
        ELSE [s EXCEPT !.idle_read_buffers = Append(@, s.active_read_buffers[i]),
                       !.active_read_buffers = Erase(@, i)]

(***************************************************************************)
(* Promise / Future.  Promise.impl.hpp is not part of the sources at hand; *)
(* the slot follows the specification: pending until resolved or rejected, *)
(* one continuation, invoked synchronously by resolve and then spent; a    *)
(* resolve or reject of a settled slot changes nothing; reset returns the  *)
(* slot to pending and discards the value.                                 *)
(***************************************************************************)
NewPromise == [st |-> "pending", val |-> 0, cont |-> FALSE]

PromiseFires(p) == p.st = "pending" /\ p.cont

PromiseResolve(p, v) ==
    IF p.st = "pending" THEN [st |-> "resolved", val |-> v, cont |-> FALSE] ELSE p

PromiseReject(p, e) ==
    IF p.st = "pending" THEN [st |-> "rejected", val |-> e, cont |-> FALSE] ELSE p

PromiseReset(p) == [p EXCEPT !.st = "pending", !.val = 0]

PromiseThen(p) == [p EXCEPT !.cont = TRUE]

(***************************************************************************)
(* The reactor (libuv), as far as the stream calls it.                     *)
(***************************************************************************)
uv_read_start(s, res) ==
    Emit(IF res >= 0 THEN [s EXCEPT !.uv_reading = TRUE] ELSE s,
         "uv_read_start", res, 0)

uv_read_stop(s, res) ==
    Emit(IF res >= 0 THEN [s EXCEPT !.uv_reading = FALSE] ELSE s,
         "uv_read_stop", res, 0)

\* Closing the handle ends a read that is still started on it; the event
\* records whether one was.
uv_close(s) ==
    Emit([s EXCEPT !.uv_close_calls = @ + 1, !.uv_reading = FALSE],
         "uv_close", IF s.uv_reading THEN 1 ELSE 0, 0)

(***************************************************************************)
(* The life cycle of the shared state.                                     *)
(***************************************************************************)
\* BasicStream::_State::~_State (the handle of a constructed stream is not null)
_State_dtor(s) == uv_close(s)

\* A shared_ptr< _State > is destroyed.
ReleaseRef(s) ==
    LET s1 == [s EXCEPT !.use_count = @ - 1]
    IN  IF s1.use_count = 0 THEN _State_dtor(s1) ELSE s1

\* A shared_ptr< _State > is copied.
AcquireRef(s) == [s EXCEPT !.use_count = @ + 1]

(***************************************************************************)
(* The read path.                                                          *)
(***************************************************************************)
RECURSIVE _stop_read(_, _)

\* A _read that leaves read_callback as it is when the reactor refuses.
_read_keeping_callback(s, res) ==
    LET s1 == uv_read_start(s, res)
    IN  IF res < 0
        THEN Emit(s1, "throw_StreamError", res, 0)
        ELSE Emit([s1 EXCEPT !.read_future = TRUE], "return_future", 0, 0)

\* BasicStream::_read
_read(s, res) ==
    LET s1 == uv_read_start(s, res)
    IN  IF res < 0
        THEN Emit([s1 EXCEPT !.read_callback = NULL], "throw_StreamError", res, 0)
        ELSE Emit([s1 EXCEPT !.read_future = TRUE], "return_future", 0, 0)

\* BasicStream::read( func ): stores the per-chunk callback, then _read().
read(s, cb, res) == _read([s EXCEPT !.read_callback = cb], res)

\* A stop_read that leaves read_callback set.
stop_read_keeping_callback(s, res, k) ==
    LET s1 == uv_read_stop(s, res)
    IN  IF res < 0
        THEN Emit(s1, "throw_StreamError", res, 0)
        ELSE _stop_read(s1, k)

\* A stop_read that gives up on a negative status before it clears the callback.
stop_read_failing_early(s, res, k) ==
    LET s1 == uv_read_stop(s, res)
    IN  IF res < 0
        THEN Emit(s1, "throw_StreamError", res, 0)
        ELSE _stop_read([s1 EXCEPT !.read_callback = NULL], k)

\* BasicStream::stop_read
stop_read(s, res, k) ==
    LET s1 == uv_read_stop(s, res)
        s2 == [s1 EXCEPT !.read_callback = NULL]
    IN  IF res < 0
        THEN Emit(s2, "throw_StreamError", res, 0)
        ELSE _stop_read(s2, k)

\* The continuation attached to the read Future runs inside resolve; it does
\* nothing to the stream, or calls stop_read(), or starts a read.
RunCont(s, k) ==
    CASE k = "none" -> s
      [] k = "stop_read" -> stop_read(s, 0, "none")
      [] k = "read" -> read(s, 1, 0)

\* A _stop_read that leaves read_count as it is.
_stop_read_keeping_count(s, k) ==
    LET v == s.read_count
        s1 == Emit([s EXCEPT !.read_promise = PromiseResolve(@, v)],
                   "resolve", v, IF s.read_promise.st = "pending" THEN 1 ELSE 0)
        s2 == IF PromiseFires(s.read_promise)
              THEN RunCont(Emit(s1, "continuation", v, 0), k)
              ELSE s1
    IN  Emit([s2 EXCEPT !.read_promise = PromiseReset(@)], "reset", 0, 0)

\* BasicStream::_stop_read
_stop_read(s, k) ==
    LET v == s.read_count
        s1 == Emit([s EXCEPT !.read_promise = PromiseResolve(@, v)],
                   "resolve", v, IF s.read_promise.st = "pending" THEN 1 ELSE 0)
        s2 == IF PromiseFires(s.read_promise)
              THEN RunCont(Emit(s1, "continuation", v, 0), k)
              ELSE s1
        s3 == Emit([s2 EXCEPT !.read_promise = PromiseReset(@)], "reset", 0, 0)
    IN  [s3 EXCEPT !.read_count = size_t(0)]

\* The allocation callback of _read.
alloc_cb(s) ==
    LET s1 == _next_read_buffer(s)
        buffer == Back(s1.active_read_buffers)
    IN  Emit([s1 EXCEPT !.uv_buf = buffer], "alloc", buffer, 0)

\* A deleter that deletes the view and leaves the pooled Buffer where it is.
view_deleter_forgetting(s, base) == Emit(s, "release", base, 0)

\* The deleter of a Buffer view: releases the pooled Buffer under the view.
view_deleter(s, base) == Emit(_release_read_buffer(s, base), "release", base, 0)

\* A view whose deleter holds no reference to the state.
keep_view_without_state(s, base) == [s EXCEPT !.views = @ \cup {base}]

\* The per-chunk callback keeps the view: the view's deleter holds the state.
keep_view(s, base) == AcquireRef([s EXCEPT !.views = @ \cup {base}])

\* A data-ready callback that stores the chunk size instead of adding it.
count_chunk_assigning(s, size) == [s EXCEPT !.read_count = size_t(size)]

\* state->read_count += size: the long is converted to std::size_t and added.
count_chunk(s, size) == [s EXCEPT !.read_count = size_t_add(@, size_t(size))]

\* What becomes of an exception that leaves the data-ready callback.  caught:
\* a handler above the reactor's loop catches it, the stack is unwound.
\* unwound: no handler takes it, the stack is unwound up to a frame that
\* ends the process.  abrupt: no handler takes it and std::terminate is
\* called from the throw, without unwinding (which of the last two happens
\* is up to the implementation).
ThrowOutcomes == {"caught", "unwound", "abrupt"}

\* The callback's shared_ptrs that are never destroyed when the process ends
\* at the call of read_callback: state, the m_state of stream, and the copy
\* captured by the deleter of the view.
hold_callback_refs(s) == AcquireRef(AcquireRef(AcquireRef(s)))

\* The data-ready callback of _read, called with the buffer of the latest
\* allocation callback.  keep: the per-chunk callback keeps the view it was
\* given; fatal: the outcome of an exception that leaves the callback.  When
\* the stack is unwound the temporary view is destroyed and its deleter runs;
\* when it is not, the view and the callback's references stay as they are.
data_cb(s, size, k, keep, fatal) ==
    LET base == s.uv_buf
        s0 == [s EXCEPT !.uv_buf = NULL]
    IN  IF size = UV_EOF
        THEN _stop_read(s0, k)
        ELSE LET s1 == count_chunk(s0, size)
             IN  IF s1.read_callback = NULL
                 THEN LET thrown == Emit(s1, "throw_bad_function_call", 0, 0)
                      IN  CASE fatal = "caught" -> view_deleter(thrown, base)
                            [] fatal = "unwound" ->
                                 view_deleter([thrown EXCEPT !.terminated = TRUE], base)
                            [] fatal = "abrupt" ->
                                 hold_callback_refs([thrown EXCEPT !.terminated = TRUE])
                 ELSE LET s2 == Emit(s1, "read_callback", base, size_t(size))
                      IN  IF keep
                          THEN keep_view(s2, base)
                          ELSE view_deleter(s2, base)

(***************************************************************************)
(* The write path.                                                         *)
(***************************************************************************)
\* _details::WriteRequest, as write() fills it in for a Buffer of n bytes.
\* n records the Buffer's size at the call; st is the reactor's view of the
\* request (failed: not accepted; inflight; ok or error: completed with that
\* status); future is the Future write() returns; settles counts how often
\* that Future was settled.
WriteRequest(n, res) ==
    [n |-> n, size |-> n, promise |-> NewPromise,
     future |-> [st |-> "pending", val |-> 0],
     st |-> IF res < 0 THEN "failed" ELSE "inflight", settles |-> 0]

\* The continuation write() chains to the request's promise.
WriteContinuation(bytes_written) == bytes_written

\* Future::then: the chained Future takes the continuation's result when the
\* promise is resolved, and the promise's error when it is rejected.
ThenChain(fires, p, f) ==
    IF ~fires THEN f
    ELSE IF p.st = "resolved"
         THEN [st |-> "resolved", val |-> WriteContinuation(p.val)]
         ELSE [st |-> "rejected", val |-> p.val]

\* Promise: once the promise is settled its continuation is destroyed, and
\* with it the WriteRequest, the state and the Buffer the continuation captured.
release_continuation(s) == ReleaseRef(s)

\* A write that does not look at the status uv_write returns.
write_ignoring_status(s, n, res) ==
    LET id == Len(s.writes) + 1
        s1 == Emit([s EXCEPT !.writes = Append(@, WriteRequest(n, res))],
                   "uv_write", id, res)
    IN  Emit(AcquireRef([s1 EXCEPT !.writes[id].promise = PromiseThen(@)]),
             "return_future", id, 0)

\* BasicStream::write
write(s, n, res) ==
    LET id == Len(s.writes) + 1
        s1 == Emit([s EXCEPT !.writes = Append(@, WriteRequest(n, res))],
                   "uv_write", id, res)
    IN  IF res < 0
        THEN Emit(s1, "throw_StreamError", res, 0)
        ELSE Emit(AcquireRef([s1 EXCEPT !.writes[id].promise = PromiseThen(@)]),
                  "return_future", id, 0)

\* A completion callback that resolves with the status instead of the size.
write_cb_resolving_status(s, id, status) ==
    LET req == s.writes[id]
        fires == PromiseFires(req.promise)
        p1 == IF status < 0
              THEN PromiseReject(req.promise, status)
              ELSE PromiseResolve(req.promise, status)
        s1 == Emit([s EXCEPT !.writes[id].promise = p1,
                             !.writes[id].st = IF status < 0 THEN "error" ELSE "ok"],
                   IF status < 0 THEN "reject" ELSE "resolve", p1.val, id)
        s2 == [s1 EXCEPT !.writes[id].future = ThenChain(fires, p1, @),
                         !.writes[id].settles = IF fires THEN @ + 1 ELSE @]
    IN  release_continuation(s2)

\* A completion callback that settles the request made last, whichever
\* request completed.
write_cb_latest(s, id, status) ==
    LET last == Len(s.writes)
        req == s.writes[last]
        fires == PromiseFires(req.promise)
        p1 == IF status < 0
              THEN PromiseReject(req.promise, status)
              ELSE PromiseResolve(req.promise, req.size)
        s1 == Emit([s EXCEPT !.writes[last].promise = p1,
                             !.writes[last].st = IF status < 0 THEN "error" ELSE "ok"],
                   IF status < 0 THEN "reject" ELSE "resolve", p1.val, last)
        s2 == [s1 EXCEPT !.writes[last].future = ThenChain(fires, p1, @),
                         !.writes[last].settles = IF fires THEN @ + 1 ELSE @]
    IN  release_continuation(s2)

\* The completion callback write() hands to uv_write; when the promise is
\* settled the chained continuation, and the state it captured, is let go.
write_cb(s, id, status) ==
    LET req == s.writes[id]
        fires == PromiseFires(req.promise)
        p1 == IF status < 0
              THEN PromiseReject(req.promise, status)
              ELSE PromiseResolve(req.promise, req.size)
        s1 == Emit([s EXCEPT !.writes[id].promise = p1,
                             !.writes[id].st = IF status < 0 THEN "error" ELSE "ok"],
                   IF status < 0 THEN "reject" ELSE "resolve", p1.val, id)
        s2 == [s1 EXCEPT !.writes[id].future = ThenChain(fires, p1, @),
                         !.writes[id].settles = IF fires THEN @ + 1 ELSE @]
    IN  release_continuation(s2)

(***************************************************************************)
(* The state after BasicStream( handle ) and state( state_ptr ).           *)
(***************************************************************************)
InitStream ==
    /\ read_count = size_t(0)
    /\ read_callback = NULL
    /\ read_promise = NewPromise
    /\ idle_read_buffers = <<>>
    /\ active_read_buffers = <<>>
    /\ allocated = 0
    /\ use_count = 1
    /\ handles = 1
    /\ views = {}
    /\ read_future = FALSE
    /\ writes = <<>>
    /\ uv_reading = FALSE
    /\ uv_buf = NULL
    /\ uv_close_calls = 0
    /\ terminated = FALSE
    /\ chunks = <<>>
    /\ ended = <<"none", FALSE>>
    /\ stopped = FALSE
    /\ trace = <<>>

\* An Emitter starts without listeners (std::list is default-constructed empty).
Init ==
    /\ InitStream
    /\ m_events = [i \in 1..Len(Events) |-> <<>>]
    /\ tup = <<>>

(***************************************************************************)
(* Who may run.  The reactor calls the allocation callback and the         *)
(* data-ready callback back to back, so nothing else runs while a buffer   *)
(* is handed out (uv_buf # NULL).                                          *)
(***************************************************************************)
Live == use_count > 0 /\ ~terminated
Quiet == Live /\ uv_buf = NULL
App == Quiet /\ handles >= 1

Enter(name, a, b) == Emit(Cur, name, a, b)

\* What the continuation of the read Future may do, when this call runs it.
ContChoice(status) ==
    IF PromiseFires(read_promise) /\ status >= 0 /\ handles >= 1
    THEN ContBehaviours
    ELSE {"none"}

\* Whether a data-ready report of this size reaches the per-chunk callback.
Delivers(size) == size # UV_EOF /\ read_callback # NULL

(***************************************************************************)
(* The application's calls on the read side.                               *)
(***************************************************************************)
Read ==
    /\ App
    /\ \E cb \in CallbackIds, res \in UvStatus :
          /\ Commit(read(Enter("read", cb, res), cb, res))
          /\ stopped' = (stopped /\ res < 0)
    /\ UNCHANGED <<chunks, ended>>

StopRead ==
    /\ App
    /\ \E res \in UvStatus :
       \E k \in ContChoice(res) :
          /\ Commit(stop_read(Enter("stop_read", res, 0), res, k))
          /\ chunks' = IF res < 0 THEN chunks ELSE <<>>
          /\ ended' = IF res < 0 THEN ended ELSE <<"stop", SumSeq(chunks) # 0>>
          /\ stopped' = (k # "read")

Then ==
    /\ Quiet
    /\ read_future
    /\ ~read_promise.cont
    /\ Commit([Enter("then", 0, 0) EXCEPT !.read_promise = PromiseThen(@)])
    /\ UNCHANGED <<chunks, ended, stopped>>

DropView ==
    /\ Quiet
    /\ \E base \in views :
          Commit(ReleaseRef(view_deleter(
              [Enter("drop_view", base, 0) EXCEPT !.views = @ \ {base}], base)))
    /\ UNCHANGED <<chunks, ended, stopped>>

(***************************************************************************)
(* The reactor's callbacks on the read side.  At end of file the reactor   *)
(* stops reading before it reports UV_EOF.                                 *)
(***************************************************************************)
AllocWithin(maxbuf) ==
    /\ Quiet
    /\ uv_reading
    /\ idle_read_buffers # <<>> \/ allocated < maxbuf
    /\ Commit(alloc_cb(Enter("alloc_cb", 0, 0)))
    /\ UNCHANGED <<chunks, ended, stopped>>

DataReadyWithin(maxchunks) ==
    /\ Live
    /\ uv_buf # NULL
    /\ \E size \in ReadSizes :
       \E k \in ContChoice(IF size = UV_EOF THEN 0 ELSE -1) :
       \E keep \in (IF Delivers(size) THEN BOOLEAN ELSE {FALSE}) :
       \E fatal \in (IF size # UV_EOF /\ read_callback = NULL
                     THEN ThrowOutcomes ELSE {"caught"}) :
          /\ size # UV_EOF => Len(chunks) < maxchunks
          /\ keep => Cardinality(views) < MaxViews
          /\ Commit(data_cb(
                [Enter("data_cb", size, uv_buf) EXCEPT
                    !.uv_reading = (@ /\ size # UV_EOF)],
                size, k, keep, fatal))
          /\ chunks' = IF size = UV_EOF THEN <<>> ELSE Append(chunks, size)
          /\ ended' = IF size = UV_EOF THEN <<"eof", SumSeq(chunks) # 0>> ELSE ended
          /\ stopped' = CASE k = "read" -> FALSE
                           [] k = "stop_read" -> TRUE
                           [] OTHER -> stopped

Alloc == AllocWithin(MaxBuffers)

DataReady == DataReadyWithin(MaxChunks)

(***************************************************************************)
(* The write side.                                                         *)
(***************************************************************************)
WriteWithin(maxwrites, sizes) ==
    /\ App
    /\ Len(writes) < maxwrites
    /\ \E n \in sizes, res \in UvStatus :
          Commit(write(Enter("write", n, res), n, res))
    /\ UNCHANGED <<chunks, ended, stopped>>

Write == WriteWithin(MaxWrites, BufSizes)

WriteComplete ==
    /\ Quiet
    /\ \E id \in 1..Len(writes), status \in UvStatus :
          /\ writes[id].st = "inflight"
          /\ Commit(write_cb(Enter("write_cb", id, status), id, status))
    /\ UNCHANGED <<chunks, ended, stopped>>

(***************************************************************************)
(* BasicStream objects are copied and destroyed.                           *)
(***************************************************************************)
CopyHandle ==
    /\ App
    /\ handles <= MaxCopies
    /\ Commit(AcquireRef([Enter("copy", 0, 0) EXCEPT !.handles = @ + 1]))
    /\ UNCHANGED <<chunks, ended, stopped>>

DropHandle ==
    /\ App
    /\ Commit(ReleaseRef([Enter("drop", 0, 0) EXCEPT !.handles = @ - 1]))
    /\ UNCHANGED <<chunks, ended, stopped>>

(***************************************************************************)
(* The pool on its own: _next_read_buffer and _release_read_buffer called  *)
(* in any order, with any address.                                         *)
(***************************************************************************)
Addresses == 0..(PoolBuffers + 1)

Acquire ==
    /\ idle_read_buffers # <<>> \/ allocated < PoolBuffers
    /\ Commit(_next_read_buffer(Enter("acquire", 0, 0)))
    /\ UNCHANGED <<chunks, ended, stopped>>

Release ==
    /\ \E base \in Addresses :
          Commit(_release_read_buffer(Enter("release", base, 0), base))
    /\ UNCHANGED <<chunks, ended, stopped>>

NextPool == Acquire \/ Release

SpecPool == Init /\ [][NextPool]_vars

NextRead == Read \/ StopRead \/ Then \/ DropView \/ Alloc \/ DataReady

SpecRead == Init /\ [][NextRead]_vars

NextWrite == Write \/ WriteComplete \/ CopyHandle \/ DropHandle

SpecWrite == Init /\ [][NextWrite]_vars

(***************************************************************************)
(* The life cycle of the state: reads, writes, views and BasicStream       *)
(* copies all hold the state.                                              *)
(***************************************************************************)
LifeAlloc == AllocWithin(LifeBuffers)

LifeDataReady == DataReadyWithin(LifeChunks)

LifeWrite == WriteWithin(LifeWrites, {Min(BufSizes)})

NextLife ==
    \/ Read \/ DropView \/ LifeAlloc \/ LifeDataReady
    \/ LifeWrite \/ WriteComplete \/ CopyHandle \/ DropHandle

SpecLife == Init /\ [][NextLife]_vars

(***************************************************************************)
(* Reading the history of the latest handler.                              *)
(***************************************************************************)
\* The latest handler is `name'.
Handler(tr, name) == tr # <<>> /\ tr[1][1] = name

\* The latest handler made a call `name'.
HasEvent(tr, name) == \E i \in 1..Len(tr) : tr[i][1] = name

\* The latest handler is the data-ready callback, called with `size'.
DataReadyWith(tr, size) == Handler(tr, "data_cb") /\ tr[1][2] = size

\* The values the read promise took in the latest handler: one for each resolve
\* that found it pending.
ResolvedValues(tr) ==
    LET hits == SelectSeq(tr, LAMBDA e : e[1] = "resolve" /\ e[3] = 1)
    IN  [i \in 1..Len(hits) |-> hits[i][2]]

Inflight == {id \in 1..Len(writes) : writes[id].st = "inflight"}

(***************************************************************************)
(* C1.  Buffer pool conservation: after any sequence of _next_read_buffer  *)
(* and _release_read_buffer calls every Buffer ever allocated is in        *)
(* exactly one of idle_read_buffers and active_read_buffers, and a release *)
(* whose address matches no active Buffer leaves both lists as they were.  *)
(***************************************************************************)
PoolPartition ==
    LET all == idle_read_buffers \o active_read_buffers
    IN  Len(all) = allocated /\ Range(all) = 1..allocated

UnmatchedReleaseKeeps ==
    (Handler(trace', "release") /\ trace'[1][2] \notin Range(active_read_buffers))
        => UNCHANGED <<idle_read_buffers, active_read_buffers>>

C1_PoolConservation == []PoolPartition /\ [][UnmatchedReleaseKeeps]_vars

\* A release of an address that was never handed out, with Buffers on both lists.
C1_Witness ==
    /\ Handler(trace, "release")
    /\ trace[1][2] \notin 1..allocated
    /\ Len(active_read_buffers) >= 2
    /\ Len(idle_read_buffers) >= 1

(***************************************************************************)
(* C2.  Read accumulation: when the data-ready callback is called with     *)
(* UV_EOF after the positive sizes s1 .. sk of a batch, the read promise   *)
(* is resolved exactly once, with s1 + .. + sk, it is not rejected, and    *)
(* read_count is 0 when the callback returns.                              *)
(***************************************************************************)
C2_ReadAccumulation ==
    [][ (DataReadyWith(trace', UV_EOF) /\ \A i \in 1..Len(chunks) : chunks[i] > 0)
          => /\ ResolvedValues(trace') = <<size_t(SumSeq(chunks))>>
             /\ ~HasEvent(trace', "reject")
             /\ read_count' = size_t(0) ]_vars

\* End of file after the chunks 1 and 2 (in either order): resolved with 3.
C2_Witness ==
    /\ DataReadyWith(trace, UV_EOF)
    /\ ResolvedValues(trace) = <<size_t(3)>>
    /\ read_count = size_t(0)

(***************************************************************************)
(* C3.  Read restart: after a batch that ended with end of file the        *)
(* counter is 0 and the promise is pending again, so the next cycle counts *)
(* from 0: the value that cycle's promise is resolved with, and the value  *)
(* its continuation receives, is the sum of that cycle's own chunks (of    *)
(* the sizes reported in that cycle, added as std::size_t).                *)
(***************************************************************************)
FreshAfterEof ==
    (ended[1] = "eof" /\ chunks = <<>>)
        => read_count = size_t(0) /\ read_promise.st = "pending" /\ read_promise.val = 0

OwnTotal ==
    (ended[1] = "eof" /\ HasEvent(trace', "resolve"))
        => \A i \in 1..Len(trace') :
              trace'[i][1] \in {"resolve", "continuation"}
                  => trace'[i][2] = size_t(SumSeq(chunks))

C3_ReadRestart == []FreshAfterEof /\ [][OwnTotal]_vars

\* A batch with bytes has ended with end of file; the next cycle has received
\* chunks of its own, counts only those, and a continuation waits for its total.
C3_Witness ==
    /\ ended = <<"eof", TRUE>>
    /\ Len(chunks) >= 2
    /\ read_count = size_t(SumSeq(chunks))
    /\ read_promise.cont

(***************************************************************************)
(* C4.  Write round trip: a write of a Buffer of n bytes that the reactor  *)
(* accepted and completed with status 0 has its Future resolved, once,     *)
(* with n.                                                                 *)
(***************************************************************************)
C4_WriteRoundTrip ==
    \A id \in 1..Len(writes) :
        writes[id].st = "ok"
            => /\ writes[id].future = [st |-> "resolved", val |-> writes[id].n]
               /\ writes[id].settles = 1

C4_Witness ==
    \E id \in 1..Len(writes) :
        writes[id].st = "ok" /\ writes[id].n = 2 /\ writes[id].future.val = 2

(***************************************************************************)
(* C5.  Write failure: a completion with a negative status rejects the     *)
(* Future with that error, once, and never resolves it; a negative status  *)
(* at submission makes write throw a StreamError and return no Future, and *)
(* the request's promise is never settled.                                 *)
(***************************************************************************)
C5_WriteFailure ==
    /\ \A id \in 1..Len(writes) :
          /\ writes[id].st = "error"
                => /\ writes[id].future.st = "rejected"
                   /\ writes[id].future.val \in ErrStatus
                   /\ writes[id].settles = 1
          /\ writes[id].st = "failed"
                => /\ writes[id].promise = NewPromise
                   /\ writes[id].future.st = "pending"
                   /\ writes[id].settles = 0
    /\ (Handler(trace, "write") /\ trace[1][3] < 0)
          => /\ HasEvent(trace, "throw_StreamError")
             /\ ~HasEvent(trace, "return_future")

\* One write failed at completion, another at submission.
C5_Witness ==
    /\ \E id \in 1..Len(writes) : writes[id].st = "error"
    /\ \E id \in 1..Len(writes) : writes[id].st = "failed"
    /\ Handler(trace, "write")
    /\ trace[1][3] < 0

(***************************************************************************)
(* C6.  Stop propagates: once stop_read() has been called and no read has  *)
(* been started since, a data-ready callback delivers no chunk to the      *)
(* per-chunk callback.                                                     *)
(***************************************************************************)
C6_StopPropagates ==
    (stopped /\ Handler(trace, "data_cb")) => ~HasEvent(trace, "read_callback")

\* The reactor could not stop, and reports a chunk after stop_read().
C6_Witness ==
    /\ stopped
    /\ Handler(trace, "data_cb")
    /\ trace[1][2] \in DataSizes
    /\ ~HasEvent(trace, "read_callback")

(***************************************************************************)
(* C7.  End of file returns the stream to idle: the data-ready callback    *)
(* called with UV_EOF calls uv_read_stop before it resolves the promise,   *)
(* and read_callback is not set when it returns.                           *)
(***************************************************************************)
C7_EofReturnsToIdle ==
    DataReadyWith(trace, UV_EOF)
        => /\ \E i \in 1..Len(trace) :
                /\ trace[i][1] = "uv_read_stop"
                /\ \A j \in 1..Len(trace) : trace[j][1] = "resolve" => i < j
           /\ read_callback = NULL

(***************************************************************************)
(* C8.  A negative size that is not UV_EOF is handled like end of file:    *)
(* the promise is resolved and reset, read_count is 0 afterwards, nothing  *)
(* is rejected and the per-chunk callback is not called.                   *)
(***************************************************************************)
C8_NegativeSizeLikeEof ==
    (Handler(trace, "data_cb") /\ trace[1][2] \in ErrStatus)
        => /\ HasEvent(trace, "resolve")
           /\ HasEvent(trace, "reset")
           /\ ~HasEvent(trace, "reject")
           /\ ~HasEvent(trace, "read_callback")
           /\ read_count = size_t(0)

(***************************************************************************)
(* C9.  Single resolution: within a handler, continuations included, the   *)
(* read promise is not resolved or rejected twice without a reset in       *)
(* between, and its continuation does not run twice without a reset in     *)
(* between.                                                                *)
(***************************************************************************)
NoRepeatWithoutReset(tr, names) ==
    \A i, j \in 1..Len(tr) :
        (i < j /\ tr[i][1] \in names /\ tr[j][1] \in names)
            => \E m \in (i + 1)..(j - 1) : tr[m][1] = "reset"

C9_SingleResolution ==
    /\ NoRepeatWithoutReset(trace, {"resolve", "reject"})
    /\ NoRepeatWithoutReset(trace, {"continuation"})

(***************************************************************************)
(* C10.  The handle is closed once, at teardown: uv_close has been called  *)
(* exactly when no BasicStream, no view and no write continuation holds    *)
(* the state any more, and then it has been called once.                   *)
(***************************************************************************)
C10_ClosedOnceAtTeardown ==
    /\ uv_close_calls \in {0, 1}
    /\ uv_close_calls = 1 <=> (handles = 0 /\ views = {} /\ Inflight = {})

\* The last holder was a view, after the BasicStream and a write were gone.
C10_Witness ==
    /\ uv_close_calls = 1
    /\ Handler(trace, "drop_view")
    /\ HasEvent(trace, "uv_close")
    /\ Len(writes) >= 1

(***************************************************************************)
(* C11.  The state outlives the callbacks registered with the reactor:     *)
(* the state is not destroyed (its destructor closes the handle) while a   *)
(* read is started on the handle or a write is in flight, whatever the     *)
(* application does with its BasicStream objects and views.                *)
(***************************************************************************)
C11_StateOutlivesCallbacks ==
    \A i \in 1..Len(trace) :
        trace[i][1] = "uv_close" => (trace[i][2] = 0 /\ Inflight = {})

(***************************************************************************)
(* C12.  stop_read failure: stop_read() calls uv_read_stop first, whatever *)
(* the state of the stream, and clears read_callback (it is NULL when      *)
(* stop_read returns unless the continuation of the read Future started a  *)
(* new read); when uv_read_stop reports a negative status stop_read throws *)
(* a StreamError, finalizes nothing, and read_callback is NULL.            *)
(***************************************************************************)
C12_StopReadFailure ==
    Handler(trace, "stop_read")
        => /\ Len(trace) >= 2
           /\ trace[2] = <<"uv_read_stop", trace[1][2], 0>>
           /\ read_callback = NULL \/ HasEvent(trace, "uv_read_start")
           /\ trace[1][2] < 0
                 => /\ HasEvent(trace, "throw_StreamError")
                    /\ ~HasEvent(trace, "resolve")
                    /\ read_callback = NULL
           /\ trace[1][2] >= 0 => ~HasEvent(trace, "throw_StreamError")

\* The reactor could not stop a read that had delivered a chunk: stop_read
\* threw, the read is still started, and the callback is gone.
C12_Witness ==
    /\ Handler(trace, "stop_read")
    /\ trace[1][2] < 0
    /\ HasEvent(trace, "throw_StreamError")
    /\ uv_reading
    /\ read_count # size_t(0)
    /\ read_callback = NULL

(***************************************************************************)
(* C13.  _read failure: _read() calls uv_read_start; on a negative status  *)
(* it throws a StreamError, returns no Future, and read_callback is NULL   *)
(* afterwards; on acceptance it returns the Future of read_promise, throws *)
(* nothing, and the callback read() stored stays set.                      *)
(***************************************************************************)
C13_ReadFailure ==
    Handler(trace, "read")
        => /\ Len(trace) = 3
           /\ trace[2] = <<"uv_read_start", trace[1][3], 0>>
           /\ trace[1][3] < 0
                 => /\ trace[3][1] = "throw_StreamError"
                    /\ read_callback = NULL
           /\ trace[1][3] >= 0
                 => /\ trace[3][1] = "return_future"
                    /\ read_future
                    /\ uv_reading
                    /\ read_callback = trace[1][2]

\* The reactor refused a read() made while an earlier read was delivering
\* chunks: the call threw and the callback of the earlier read is gone.
C13_Witness ==
    /\ Handler(trace, "read")
    /\ trace[1][3] < 0
    /\ trace[3][1] = "throw_StreamError"
    /\ read_callback = NULL
    /\ uv_reading
    /\ read_count # size_t(0)

(***************************************************************************)
(* The Emitter (source/lw/event/Emitter.hpp).  An Event is its list of     *)
(* listeners, m_listeners; a listener is the id of a functor.  Listener    *)
(* Adder, when called, binds listener 1 to the event it was called for;    *)
(* the other listeners leave the emitter alone.                            *)
(***************************************************************************)
MaxListeners == 3    \* listeners bound to one event

Listeners == {1, 2, 3}

Adder == 3

\* _details::event_index_impl: the index of the first event of the tuple
\* whose event_id_type is EventId.
RECURSIVE event_index_impl(_, _, _)
event_index_impl(I, EventId, events) ==
    IF Head(events) = EventId
    THEN I
    ELSE event_index_impl(I + 1, EventId, Tail(events))

event_index(EventId) == event_index_impl(0, EventId, Events)

\* _details::get_event<EventId, Events...>::from( m_events )
get_event(events, EventId) == events[event_index(EventId) + 1]

\* Event::emplace_back and Event::push_back
emplace_back(m_listeners, listener) == Append(m_listeners, listener)

push_back(m_listeners, listener) == Append(m_listeners, listener)

\* Event::remove_if, with a predicate that is true of the listeners in pred
Event_remove_if(m_listeners, pred) ==
    SelectSeq(m_listeners, LAMBDA listener : listener \notin pred)

\* Event::clear, Event::size, Event::empty
Event_clear(m_listeners) == <<>>

Event_size(m_listeners) == Len(m_listeners)

Event_empty(m_listeners) == m_listeners = <<>>

\* The emitter a member function works on: m_events and the calls made.
CurEmitter(name, a, b) == [m_events |-> m_events, trace |-> <<<<name, a, b>>>>]

\* Emitter::on
Emitter_on(e, EventId, listener) ==
    [e EXCEPT !.m_events[event_index(EventId) + 1] = emplace_back(@, listener)]

\* Emitter::emplace
Emitter_emplace(e, EventId, listener) == Emitter_on(e, EventId, listener)

\* Emitter::insert
Emitter_insert(e, EventId, listener) ==
    [e EXCEPT !.m_events[event_index(EventId) + 1] = push_back(@, listener)]

\* Emitter::remove_if
Emitter_remove_if(e, EventId, pred) ==
    [e EXCEPT !.m_events[event_index(EventId) + 1] = Event_remove_if(@, pred)]

\* A clear( const EventId& ) that clears the events after EventId as well.
Emitter_clear_event_onward(e, EventId) ==
    [e EXCEPT !.m_events =
        [i \in 1..Len(@) |-> IF i >= event_index(EventId) + 1 THEN <<>> ELSE @[i]]]

\* Emitter::clear( const EventId& )
Emitter_clear_event(e, EventId) ==
    [e EXCEPT !.m_events[event_index(EventId) + 1] = Event_clear(@)]

\* Emitter::clear( void ): for_each( m_events, event.clear() )
Emitter_clear(e) ==
    LET visited == Range(for_each(e.m_events))
    IN  [e EXCEPT !.m_events =
            [i \in 1..Len(@) |-> IF (i - 1) \in visited THEN Event_clear(@[i]) ELSE @[i]]]

\* Emitter::empty( const EventId& )
Emitter_empty_event(events, EventId) == Event_empty(get_event(events, EventId))

\* Emitter::empty( void ): empty = empty && event.empty(), for each event
Emitter_empty(events) ==
    LET visits == for_each(events)
    IN  \A k \in 1..Len(visits) : Event_empty(events[visits[k] + 1])

\* Emitter::size( const EventId& )
Emitter_size_event(events, EventId) == Event_size(get_event(events, EventId))

\* Emitter::size( void ): size += event.size(), for each event
Emitter_size(events) ==
    LET visits == for_each(events)
    IN  SumSeq([k \in 1..Len(visits) |-> Event_size(events[visits[k] + 1])])

\* The body of a listener, called for EventId.
RunListener(e, listener, EventId) ==
    IF listener = Adder THEN Emitter_on(e, EventId, 1) ELSE e

\* Event::operator(): the range-for over m_listeners, from position pos on.
\* A listener emplaced while the loop runs is reached by the loop.
RECURSIVE Event_call(_, _, _)
Event_call(e, EventId, pos) ==
    LET m_listeners == get_event(e.m_events, EventId)
    IN  IF pos > Len(m_listeners)
        THEN e
        ELSE Event_call(
                RunListener(
                    Emit(e, "listener", m_listeners[pos], event_index(EventId)),
                    m_listeners[pos], EventId),
                EventId, pos + 1)

\* An emit that calls the listeners of the first event of the tuple.
Emitter_emit_first(e, EventId) == Event_call(e, Events[1], 1)

\* Emitter::emit
Emitter_emit(e, EventId) == Event_call(e, EventId, 1)

EventIds == Range(Events)

CommitEmitter(e) ==
    /\ m_events' = e.m_events
    /\ trace' = e.trace
    /\ UNCHANGED <<stream_vars, tup>>

Room(EventId) == Len(get_event(m_events, EventId)) < MaxListeners

On ==
    \E EventId \in EventIds, listener \in Listeners :
        /\ Room(EventId)
        /\ CommitEmitter(Emitter_on(
              CurEmitter("on", listener, event_index(EventId)), EventId, listener))

Emplace ==
    \E EventId \in EventIds, listener \in Listeners :
        /\ Room(EventId)
        /\ CommitEmitter(Emitter_emplace(
              CurEmitter("emplace", listener, event_index(EventId)), EventId, listener))

Insert ==
    \E EventId \in EventIds, listener \in Listeners :
        /\ Room(EventId)
        /\ CommitEmitter(Emitter_insert(
              CurEmitter("insert", listener, event_index(EventId)), EventId, listener))

RemoveIf ==
    \E EventId \in EventIds, listener \in Listeners :
        CommitEmitter(Emitter_remove_if(
            CurEmitter("remove_if", listener, event_index(EventId)), EventId, {listener}))

ClearEvent ==
    \E EventId \in EventIds :
        CommitEmitter(Emitter_clear_event(
            CurEmitter("clear_event", Emitter_size_event(m_events, EventId),
                       event_index(EventId)), EventId))

ClearAll == CommitEmitter(Emitter_clear(CurEmitter("clear", Emitter_size(m_events), 0)))

\* The listeners called may bind new ones: there must be room for them.
EmitEvent ==
    \E EventId \in EventIds :
        LET m_listeners == get_event(m_events, EventId)
            adders == {i \in 1..Len(m_listeners) : m_listeners[i] = Adder}
        IN  /\ Len(m_listeners) + Cardinality(adders) <= MaxListeners
            /\ CommitEmitter(Emitter_emit(
                  CurEmitter("emit", 0, event_index(EventId)), EventId))

NextEmitter ==
    On \/ Emplace \/ Insert \/ RemoveIf \/ ClearEvent \/ ClearAll \/ EmitEvent

SpecEmitter == Init /\ [][NextEmitter]_vars

(***************************************************************************)
(* C14.  Emitter dispatch order: emit(E) calls the listeners bound to E,   *)
(* each bound entry once, in the order in which on, emplace and insert     *)
(* added them (each appends to the back of E's list and touches no other   *)
(* event), and calls nothing from the list of another event.  A listener   *)
(* bound by a listener during the dispatch comes after those bound before. *)
(***************************************************************************)
CalledListeners(tr) == [k \in 1..(Len(tr) - 1) |-> tr[k + 1][2]]

DispatchInOrder ==
    Handler(trace, "emit")
        => /\ \A k \in 2..Len(trace) :
                 trace[k][1] = "listener" /\ trace[k][3] = trace[1][3]
           /\ CalledListeners(trace) = m_events[trace[1][3] + 1]

AddsToBack ==
    (trace' # <<>> /\ trace'[1][1] \in {"on", "emplace", "insert"})
        => m_events' = [m_events EXCEPT ![trace'[1][3] + 1] = Append(@, trace'[1][2])]

DispatchKeepsBound ==
    Handler(trace', "emit")
        => \A i \in 1..Len(m_events) :
              /\ Len(m_events[i]) <= Len(m_events'[i])
              /\ SubSeq(m_events'[i], 1, Len(m_events[i])) = m_events[i]
              /\ i # trace'[1][3] + 1 => m_events'[i] = m_events[i]

C14_DispatchOrder ==
    []DispatchInOrder /\ [][AddsToBack /\ DispatchKeepsBound]_vars

\* emit of the second event, to which 2 and then Adder were bound: 2, Adder and
\* the listener Adder bound were called, in this order, while the first event
\* has listeners of its own.
C14_Witness ==
    /\ Handler(trace, "emit")
    /\ trace[1][3] = 1
    /\ CalledListeners(trace) = <<2, Adder, 1>>
    /\ m_events[1] # <<>>
    /\ m_events[1] # m_events[2]

(***************************************************************************)
(* C15.  Emitter bookkeeping: size() is the sum of size(E) over the        *)
(* events, empty() holds exactly when size() is 0, empty(E) exactly when   *)
(* size(E) is 0; clear(E) leaves E without listeners and the listeners of  *)
(* every other event as they were; clear() leaves every event without      *)
(* listeners.                                                              *)
(***************************************************************************)
SizesAgree ==
    /\ Emitter_size(m_events)
          = SumSeq([i \in 1..Len(Events) |-> Emitter_size_event(m_events, Events[i])])
    /\ Emitter_empty(m_events) <=> Emitter_size(m_events) = 0
    /\ \A EventId \in EventIds :
          Emitter_empty_event(m_events, EventId)
              <=> Emitter_size_event(m_events, EventId) = 0

ClearEventClearsOne ==
    Handler(trace', "clear_event")
        => /\ Emitter_size_event(m_events', Events[trace'[1][3] + 1]) = 0
           /\ \A i \in 1..Len(m_events) :
                 i # trace'[1][3] + 1 => m_events'[i] = m_events[i]

ClearClearsAll ==
    Handler(trace', "clear")
        => \A EventId \in EventIds : Emitter_size_event(m_events', EventId) = 0

C15_Bookkeeping == []SizesAgree /\ [][ClearEventClearsOne /\ ClearClearsAll]_vars

\* clear(E) of the first event, which had two listeners or more, while the
\* second event keeps its two or more.
C15_Witness ==
    /\ Handler(trace, "clear_event")
    /\ trace[1][3] = 0
    /\ trace[1][2] >= 2
    /\ Emitter_size(m_events) >= 2
    /\ Emitter_empty_event(m_events, Events[1])
    /\ ~Emitter_empty(m_events)

(***************************************************************************)
(* The lw::trait helpers on their own, applied to every tuple of up to     *)
(* MaxTuple elements.  An element stands for its type and its value.       *)
(***************************************************************************)
MaxTuple == 3        \* elements of a tuple

Types == {"double", "int", "string"}

Tuples == UNION {[1..n -> Types] : n \in 0..MaxTuple}

InitTrait ==
    /\ InitStream
    /\ m_events = [i \in 1..Len(Events) |-> <<>>]
    /\ tup \in Tuples

\* The calls of the functor: func( std::get<I>( tuple ) ) for each index visited.
FunctorCalls(tuple) ==
    LET visits == for_each(tuple)
    IN  [k \in 1..Len(visits) |-> <<"call", visits[k], tuple[visits[k] + 1]>>]

ForEach ==
    /\ trace' = <<<<"for_each", 0, 0>>>> \o FunctorCalls(tup)
    /\ UNCHANGED <<stream_vars, m_events, tup>>

ConstForEach ==
    /\ trace' = <<<<"const_for_each", 0, 0>>>> \o FunctorCalls(tup)
    /\ UNCHANGED <<stream_vars, m_events, tup>>

RemoveType ==
    /\ \E T \in Types :
          /\ tup' = remove_type(T, tup)
          /\ trace' = <<<<"remove_type", T, tup>>>>
    /\ UNCHANGED <<stream_vars, m_events>>

NextTrait == ForEach \/ ConstForEach \/ RemoveType

SpecTrait == InitTrait /\ [][NextTrait]_vars

(***************************************************************************)
(* C16.  trait::for_each over a tuple of n elements, mutable or const,     *)
(* calls the functor n times: call k (k = 0 .. n-1) is made with element k *)
(* of the tuple.                                                           *)
(***************************************************************************)
C16_ForEachInOrder ==
    (Handler(trace, "for_each") \/ Handler(trace, "const_for_each"))
        => /\ Len(trace) = Len(tup) + 1
           /\ \A k \in 1..Len(tup) : trace[k + 1] = <<"call", k - 1, tup[k]>>

\* The tuple of the tests: three calls, with the double, the int, the string.
C16_Witness ==
    /\ Handler(trace, "const_for_each")
    /\ tup = <<"double", "int", "string">>
    /\ Len(trace) = 4
    /\ trace[4] = <<"call", 2, "string">>

(***************************************************************************)
(* C17.  trait::remove_type< T, tuple< Ts... > >::type holds the elements  *)
(* of Ts... that differ from T, all of them, in their order in Ts...; the  *)
(* event list of an emitter defined with LW_DEFINE_EMITTER is the macro's  *)
(* list without its trailing std::nullptr_t.                               *)
(***************************************************************************)
C17_RemoveType ==
    /\ Events = <<"data", "end">>
    /\ Handler(trace, "remove_type")
          => LET T == trace[1][2]
                 Ts == trace[1][3]
                 kept == {i \in 1..Len(Ts) : Ts[i] # T}
                 nth(k) == CHOOSE i \in kept : Cardinality({j \in kept : j < i}) = k - 1
             IN  /\ Len(tup) = Cardinality(kept)
                 /\ \A k \in 1..Len(tup) : tup[k] = Ts[nth(k)]

\* Both ints are gone from ( int, double, int ).
C17_Witness ==
    /\ Handler(trace, "remove_type")
    /\ trace[1] = <<"remove_type", "int", <<"int", "double", "int">>>>
    /\ tup = <<"double">>

(***************************************************************************)
(* C18.  Pool reuse policy: _next_read_buffer allocates a Buffer, of 1024  *)
(* bytes, only when idle_read_buffers is empty; otherwise it takes the     *)
(* front of idle_read_buffers; either way the Buffer goes to the back of   *)
(* active_read_buffers and is the one returned.  _release_read_buffer puts *)
(* the Buffer it matched at the back of idle_read_buffers.                 *)
(***************************************************************************)
AcquireReuses ==
    Handler(trace', "acquire")
        => IF idle_read_buffers = <<>>
           THEN /\ trace'[2] = <<"Buffer", allocated + 1, 1024>>
                /\ allocated' = allocated + 1
                /\ active_read_buffers' = Append(active_read_buffers, allocated + 1)
                /\ idle_read_buffers' = <<>>
           ELSE /\ ~HasEvent(trace', "Buffer")
                /\ allocated' = allocated
                /\ active_read_buffers'
                      = Append(active_read_buffers, Head(idle_read_buffers))
                /\ idle_read_buffers' = Tail(idle_read_buffers)

ReleaseAppends ==
    (Handler(trace', "release") /\ trace'[1][2] \in Range(active_read_buffers))
        => /\ idle_read_buffers' = Append(idle_read_buffers, trace'[1][2])
           /\ active_read_buffers'
                 = SelectSeq(active_read_buffers, LAMBDA b : b # trace'[1][2])
           /\ allocated' = allocated

C18_PoolReuse == [][AcquireReuses /\ ReleaseAppends]_vars

\* acquire; acquire; release( first ); acquire: the third acquire returned the
\* first Buffer and allocated nothing.
C18_Witness ==
    /\ Handler(trace, "acquire")
    /\ ~HasEvent(trace, "Buffer")
    /\ allocated = 2
    /\ active_read_buffers = <<2, 1>>
    /\ idle_read_buffers = <<>>

(***************************************************************************)
(* C19.  Chunk delivery: a data-ready callback with a size s > 0, while    *)
(* read_callback is set, adds s to read_count and calls read_callback      *)
(* once, with a view of s bytes at the address of the Buffer the preceding *)
(* allocation callback handed out; when the view is destroyed (in the      *)
(* callback, or later by the application) that Buffer moves from           *)
(* active_read_buffers to the back of idle_read_buffers.                   *)
(***************************************************************************)
Moved(base) ==
    /\ base \in Range(active_read_buffers)
    /\ base \notin Range(active_read_buffers')
    /\ idle_read_buffers' = Append(idle_read_buffers, base)

ChunkDelivered ==
    (Handler(trace', "data_cb") /\ trace'[1][2] > 0 /\ read_callback # NULL)
        => /\ read_count' = size_t_add(read_count, size_t(trace'[1][2]))
           /\ uv_buf = Back(active_read_buffers)
           /\ SelectSeq(trace', LAMBDA e : e[1] = "read_callback")
                 = <<<<"read_callback", uv_buf, size_t(trace'[1][2])>>>>
           /\ IF uv_buf \in views'
              THEN UNCHANGED <<idle_read_buffers, active_read_buffers>>
              ELSE Moved(uv_buf)

ViewReleases == Handler(trace', "drop_view") => Moved(trace'[1][2])

C19_ChunkDelivery == [][ChunkDelivered /\ ViewReleases]_vars

\* The second chunk of a read, of 2 bytes after one of 1 byte: the callback
\* got 2 bytes at the Buffer handed out and kept the view, and the Buffer is
\* still active.
C19_Witness ==
    /\ Handler(trace, "data_cb")
    /\ trace[1][2] = 2
    /\ read_count = size_t(3)
    /\ \E base \in views :
          /\ trace[2] = <<"read_callback", base, size_t(2)>>
          /\ base = Back(active_read_buffers)

(***************************************************************************)
(* C20.  Independent concurrent writes: with several writes in flight, a   *)
(* completion callback settles the promise of its own request and leaves   *)
(* every other request as it was; whatever the order of the completions,   *)
(* the Future of a write is settled once when its request has completed    *)
(* and not before, and that of a successful write holds the size of its    *)
(* own Buffer.                                                             *)
(***************************************************************************)
OwnRequestOnly ==
    Handler(trace', "write_cb")
        => /\ writes[trace'[1][2]].st = "inflight"
           /\ writes'[trace'[1][2]].promise.st
                 = (IF trace'[1][3] < 0 THEN "rejected" ELSE "resolved")
           /\ \A j \in 1..Len(writes) : j # trace'[1][2] => writes'[j] = writes[j]

SettledOnce ==
    \A id \in 1..Len(writes) :
        /\ writes[id].settles = (IF writes[id].st \in {"ok", "error"} THEN 1 ELSE 0)
        /\ writes[id].st \in {"inflight", "failed"} => writes[id].future.st = "pending"
        /\ writes[id].st = "error" => writes[id].future.st = "rejected"
        /\ writes[id].st = "ok"
              => writes[id].future.st = "resolved" /\ writes[id].future.val = writes[id].n

C20_IndependentWrites == []SettledOnce /\ [][OwnRequestOnly]_vars

\* Two writes, of 1 byte and then of 2 bytes, were in flight together; the
\* second completed first, and each Future holds the size of its own Buffer.
C20_Witness ==
    /\ Len(writes) = 2
    /\ trace = <<<<"write_cb", 1, 0>>, <<"resolve", 1, 1>>>>
    /\ writes[1].future = [st |-> "resolved", val |-> 1]
    /\ writes[2].future = [st |-> "resolved", val |-> 2]

(***************************************************************************)
(* C21.  No Buffer stays lent out: once the data-ready callback that       *)
(* follows an allocation callback has returned (with data, end of file or  *)
(* an error) and the application holds no view, active_read_buffers is     *)
(* empty; and with allocation and data-ready callbacks alternating and no  *)
(* view kept, the pool never holds more than one Buffer.                   *)
(***************************************************************************)
C21_NoBufferStaysLent ==
    (uv_buf = NULL /\ views = {})
        => /\ active_read_buffers = <<>>
           /\ allocated <= 1

(***************************************************************************)
(* C22.  A rejected _read does not disturb a running read: when a read is  *)
(* started while one is active (reading is started on the handle and       *)
(* read_callback is set) and uv_read_start refuses, read_callback,         *)
(* read_count and read_promise are as they were.                           *)
(***************************************************************************)
C22_RejectedReadKeepsRunning ==
    [][ (Handler(trace', "read") /\ trace'[1][3] < 0
            /\ uv_reading /\ read_callback # NULL)
          => /\ read_callback' = read_callback
             /\ read_count' = read_count
             /\ read_promise' = read_promise ]_vars

====
